---- MODULE Spec2Model ----
(***************************************************************************)
(* Weighted MaxSAT theory plugin (src/opt/weighted_maxsat.cpp).            *)
(*                                                                         *)
(* The model follows one call of opt::weighted_maxsat: the registration    *)
(* loop (assert_weighted), the host search inside check_sat_core, which    *)
(* drives init_search_eh, assign_eh, final_check_eh and the undo trail,    *)
(* and the final get_assignment.  SpecSessions adds further calls on the   *)
(* same plugin instance and reset_eh; SpecFair is one call under a host    *)
(* that makes progress.                                                    *)
(*                                                                         *)
(* Vectors of the code are 0-based; sequences here are 1-based, so a       *)
(* vector read v[i] is written At(v, i).                                   *)
(***************************************************************************)
EXTENDS Integers, Sequences, FiniteSets, TLC

\* Largest number of soft constraints handed to weighted_maxsat.
MaxSoft == 3
\* Weights are drawn from 0..MaxWeight (the weight domain is non-negative).
MaxWeight == 2

Weights == 0..MaxWeight

\* SpecSessions: number of weighted_maxsat calls on one plugin instance, and
\* the largest number of soft constraints handed to each of them.
MaxCalls == 2
MaxSessSoft == 1

\* SpecFair: the largest number of soft constraints.
MaxFairSoft == 2

VARIABLES
    weights,      \* argument of weighted_maxsat: weights[i] of soft constraint i
    hard,         \* solver state: the sets of soft formulas some model of the hard constraints violates
    calls,        \* number of weighted_maxsat calls started on this plugin instance
    reset_mark,   \* number of atoms created before the latest reset_eh
    pc,           \* position inside weighted_maxsat
    m_vars,       \* relaxation atoms, by theory variable
    m_fmls,       \* soft formulas, by theory variable
    m_weights,    \* weights of theory variables
    num_fresh,    \* number of fresh atoms created by mk_fresh_const
    soft_i,       \* loop index i of weighted_maxsat
    m_costs,      \* asserted theory variables, in assertion order
    m_cost_save,  \* asserted theory variables of the best assignment
    m_cost,       \* current sum of asserted costs
    m_min_cost,   \* current minimal cost
    m_bool2var,   \* bool_var -> theory_var
    m_var2bool,   \* theory_var -> bool_var
    th_vars,      \* number of theory variables created by mk_var
    assigned,     \* host: assignment stack of the relaxation literals
    trail,        \* host: undo trail
    lemmas,       \* host: clauses received through mk_th_axiom
    axiom,        \* the latest mk_th_axiom call
    num_axioms,   \* number of mk_th_axiom calls
    fc,           \* status returned by the latest final_check_eh
    continued,    \* the sets of true relaxation atoms at the checkpoints that returned FC_CONTINUE
    result,       \* lbool returned by weighted_maxsat
    soft_out      \* soft_constraints after get_assignment

vars == <<weights, hard, calls, reset_mark, pc, m_vars, m_fmls, m_weights,
          num_fresh, soft_i, m_costs, m_cost_save,
          m_cost, m_min_cost, m_bool2var, m_var2bool, th_vars, assigned, trail,
          lemmas, axiom, num_axioms, fc, continued, result, soft_out>>

inputVars == <<weights, hard, calls, reset_mark>>
registryVars == <<m_vars, m_fmls, m_weights, num_fresh, soft_i>>
bindVars == <<m_bool2var, m_var2bool, th_vars>>
ledgerVars == <<m_costs, m_cost, trail>>
bestVars == <<m_cost_save, m_min_cost>>
axiomVars == <<lemmas, axiom, num_axioms>>
fcVars == <<fc, continued>>
outVars == <<result, soft_out>>

----------------------------------------------------------------------------
\* Helpers

At(v, i) == v[i + 1]

Range(s) == {s[k] : k \in 1..Len(s)}

Front(s) == SubSeq(s, 1, Len(s) - 1)

RECURSIVE SumSeq(_, _)
\* sum of w over the entries of the vector s of theory variables
SumSeq(w, s) == IF s = <<>> THEN 0 ELSE At(w, s[Len(s)]) + SumSeq(w, Front(s))

RECURSIVE SumSet(_, _)
\* sum of w over a set of theory variables
SumSet(w, S) ==
    IF S = {} THEN 0
    ELSE LET x == CHOOSE y \in S : TRUE IN At(w, x) + SumSet(w, S \ {x})

\* u_map::insert
MapInsert(f, k, v) == [x \in DOMAIN f \cup {k} |-> IF x = k THEN v ELSE f[x]]

EmptyMap == [x \in {} |-> 0]

----------------------------------------------------------------------------
\* Host (smt::context) as the plugin sees it

\* The host's bool_var of a relaxation atom; bool_var 0 is the constant true.
BoolVarOf(atom) == atom + 1

\* ~literal(bv)
NegLit(bv) == [var |-> bv, sign |-> TRUE]

\* The relaxation atoms the host holds true / has assigned.
TrueBoolVars == {assigned[k].bv : k \in {j \in 1..Len(assigned) : assigned[j].val}}
AssignedBoolVars == {assigned[k].bv : k \in 1..Len(assigned)}
BoundBoolVars == {BoolVarOf(m_vars[k]) : k \in 1..Len(m_vars)}

\* A clause of negated relaxation literals is false when all its atoms are true.
Falsified(clause, trueBvs) == \A l \in clause : l.var \in trueBvs

InConflict == \E c \in lemmas : Falsified(c, TrueBoolVars)

\* Soft constraints (by index) whose relaxation atom is in the set bvs.
IdxOf(bvs) == {i \in 0..(Len(m_vars) - 1) : BoolVarOf(At(m_vars, i)) \in bvs}

BvsOf(T) == {BoolVarOf(At(m_vars, i)) : i \in T}

\* A full assignment relaxing exactly T satisfies the hard constraints and L_i \/ F_i.
Feasible(T) == T \in hard

\* The full assignments left to the host by the hard constraints and the lemmas.
Remaining ==
    {T \in SUBSET (0..(Len(m_vars) - 1)) :
        Feasible(T) /\ \A c \in lemmas : ~Falsified(c, BvsOf(T))}

\* Upward-closed families over n soft constraints: relaxing more never hurts,
\* since L_i occurs only in L_i \/ F_i.
UpClosed(n) ==
    {F \in SUBSET (SUBSET (0..(n - 1))) :
        \A T \in F : \A i \in 0..(n - 1) : (T \cup {i}) \in F}

----------------------------------------------------------------------------
Init ==
    /\ \E n \in 0..MaxSoft :
        /\ weights \in [1..n -> Weights]
        /\ hard \in UpClosed(n)
    /\ calls = 1
    /\ reset_mark = 0
    /\ pc = "assert"
    /\ m_vars = <<>>
    /\ m_fmls = <<>>
    /\ m_weights = <<>>
    /\ num_fresh = 0
    /\ soft_i = 0
    /\ m_costs = <<>>
    /\ m_cost_save = <<>>
    /\ m_cost = 0
    /\ m_min_cost = 0
    /\ m_bool2var = EmptyMap
    /\ m_var2bool = EmptyMap
    /\ th_vars = 0
    /\ assigned = <<>>
    /\ trail = <<>>
    /\ lemmas = {}
    /\ axiom = [lits |-> <<>>, min_submit |-> 0, min_return |-> 0, caller |-> "none"]
    /\ num_axioms = 0
    /\ fc = "none"
    /\ continued = {}
    /\ result = "l_undef"
    /\ soft_out = <<>>

----------------------------------------------------------------------------
\* assert_weighted(fml, w), one iteration of the loop of weighted_maxsat.
\* The fresh atom is named by the count of atoms created so far, and the
\* formula it relaxes carries the same name.
AssertWeighted ==
    /\ pc = "assert"
    /\ soft_i < Len(weights)
    /\ LET w == At(weights, soft_i)
       IN /\ m_weights' = Append(m_weights, w)
          /\ m_vars' = Append(m_vars, num_fresh)
          /\ m_fmls' = Append(m_fmls, num_fresh)
          /\ m_min_cost' = m_min_cost + w
    /\ num_fresh' = num_fresh + 1
    /\ soft_i' = soft_i + 1
    /\ UNCHANGED <<inputVars, pc, bindVars, ledgerVars, m_cost_save, assigned,
                   axiomVars, fcVars, outVars>>

RECURSIVE BindFrom(_, _)
\* init_search_eh: the loop over m_vars from index i, on the record
\* b = [b2v, v2b, n] of the two maps and the number of theory variables.
BindFrom(i, b) ==
    IF i < Len(m_vars)
    THEN LET bv == BoolVarOf(At(m_vars, i))
             v == b.n
         IN BindFrom(i + 1, [b2v |-> MapInsert(b.b2v, bv, v),
                             v2b |-> MapInsert(b.v2b, v, bv),
                             n |-> b.n + 1])
    ELSE b

\* check_sat_core starts the search: the host calls init_search_eh.
InitSearch ==
    /\ pc = "assert"
    /\ soft_i = Len(weights)
    /\ LET b == BindFrom(0, [b2v |-> m_bool2var, v2b |-> m_var2bool, n |-> th_vars])
       IN /\ m_bool2var' = b.b2v
          /\ m_var2bool' = b.v2b
          /\ th_vars' = b.n
    /\ pc' = "search"
    /\ UNCHANGED <<inputVars, registryVars, ledgerVars, bestVars, assigned,
                   axiomVars, fcVars, outVars>>

----------------------------------------------------------------------------
\* Pruning engine: block()

\* compare_cost::operator()
CompareCost(v, w) == At(m_weights, v) > At(m_weights, w)

\* The outcomes of std::sort(costs.begin(), costs.end(), compare_cost) on a copy
\* of ids: std::sort is not stable, so entries of equal weight may come out in
\* any order.
SortedCosts(ids) ==
    LET n == Len(ids)
    IN {p \in [1..n -> Range(ids)] :
            /\ \A a, b \in 1..n : a # b => p[a] # p[b]
            /\ \A a, b \in 1..n : a < b => ~CompareCost(p[b], p[a])}

\* Mutant of BlockLoopGuard: the loop stops one entry short.
BlockLoopGuardShort(i, costs, weight, min_cost) ==
    i + 1 < Len(costs) /\ weight < min_cost

\* Mutant of BlockLoopGuard: the bound is tested on the weight the entry
\* would bring, so the loop stops before the bound is reached.
BlockLoopGuardEarly(i, costs, weight, min_cost) ==
    i < Len(costs) /\ weight + At(m_weights, At(costs, i)) < min_cost

\* Loop condition of the accumulation in block().
BlockLoopGuard(i, costs, weight, min_cost) == i < Len(costs) /\ weight < min_cost

RECURSIVE BlockLoopCount(_, _, _, _, _)
\* Mutant of BlockLoop: accumulates the number of literals instead of weights.
BlockLoopCount(costs, i, weight, lits, min_cost) ==
    IF BlockLoopGuard(i, costs, weight, min_cost)
    THEN BlockLoopCount(costs, i + 1, weight + 1,
                        Append(lits, NegLit(m_var2bool[At(costs, i)])), min_cost)
    ELSE [weight |-> weight, lits |-> lits]

RECURSIVE BlockLoopByIndex(_, _, _, _, _)
\* Mutant of BlockLoop: the literal is looked up with the loop index instead
\* of the theory variable costs[i].
BlockLoopByIndex(costs, i, weight, lits, min_cost) ==
    IF BlockLoopGuard(i, costs, weight, min_cost)
    THEN BlockLoopByIndex(costs, i + 1, weight + At(m_weights, At(costs, i)),
                          Append(lits, NegLit(m_var2bool[i])), min_cost)
    ELSE [weight |-> weight, lits |-> lits]

RECURSIVE BlockLoop(_, _, _, _, _)
\* The accumulation loop of block() over the sorted copy costs.
BlockLoop(costs, i, weight, lits, min_cost) ==
    IF BlockLoopGuard(i, costs, weight, min_cost)
    THEN BlockLoop(costs, i + 1, weight + At(m_weights, At(costs, i)),
                   Append(lits, NegLit(m_var2bool[At(costs, i)])), min_cost)
    ELSE [weight |-> weight, lits |-> lits]

\* Mutant of BlockImproves: the bound is overwritten on every call.
BlockImprovesAlways(cost, min_cost) == TRUE

\* Mutant of BlockImproves: the comparison is inverted.
BlockImprovesInverted(cost, min_cost) == cost > min_cost

\* Condition under which block() records a new best assignment.
BlockImproves(cost, min_cost) == cost < min_cost

\* Mutant of Block: m_cost_save is appended to without being reset first.
BlockNoReset(cost, ids, costs) ==
    LET r == BlockLoop(costs, 0, 0, <<>>, m_min_cost)
        better == BlockImproves(cost, m_min_cost)
    IN [lits |-> r.lits,
        min_submit |-> m_min_cost,
        min_cost |-> IF better THEN r.weight ELSE m_min_cost,
        cost_save |-> IF better THEN m_cost_save \o ids ELSE m_cost_save,
        ret |-> r.lits # <<>>]

\* Mutant of Block: the sorted copy is saved instead of m_costs.
BlockSaveSorted(cost, ids, costs) ==
    LET r == BlockLoop(costs, 0, 0, <<>>, m_min_cost)
        better == BlockImproves(cost, m_min_cost)
    IN [lits |-> r.lits,
        min_submit |-> m_min_cost,
        min_cost |-> IF better THEN r.weight ELSE m_min_cost,
        cost_save |-> IF better THEN costs ELSE m_cost_save,
        ret |-> r.lits # <<>>]

\* block() with current cost `cost`, asserted variables `ids` and the sorted
\* copy `costs`: the clause handed to mk_th_axiom, the new m_min_cost and
\* m_cost_save, and the returned flag.
Block(cost, ids, costs) ==
    LET r == BlockLoop(costs, 0, 0, <<>>, m_min_cost)
        better == BlockImproves(cost, m_min_cost)
    IN [lits |-> r.lits,
        min_submit |-> m_min_cost,
        min_cost |-> IF better THEN r.weight ELSE m_min_cost,
        cost_save |-> IF better THEN ids ELSE m_cost_save,
        ret |-> r.lits # <<>>]

\* Mutant of ApplyBlock: the clause is not handed to the host.
ApplyBlockNoAxiom(b, caller) ==
    /\ lemmas' = lemmas
    /\ axiom' = [lits |-> b.lits, min_submit |-> b.min_submit,
                 min_return |-> b.min_cost, caller |-> caller]
    /\ num_axioms' = num_axioms + 1
    /\ m_min_cost' = b.min_cost
    /\ m_cost_save' = b.cost_save

\* The state change of one block() call with outcome b.
ApplyBlock(b, caller) ==
    /\ lemmas' = lemmas \cup {Range(b.lits)}
    /\ axiom' = [lits |-> b.lits, min_submit |-> b.min_submit,
                 min_return |-> b.min_cost, caller |-> caller]
    /\ num_axioms' = num_axioms + 1
    /\ m_min_cost' = b.min_cost
    /\ m_cost_save' = b.cost_save

----------------------------------------------------------------------------
\* Cost ledger: assign_eh and the undo trail

\* Mutant of PushTrail: the value_trail of m_cost is not pushed.
PushTrailNoValue(tr, cost) == tr \o <<[kind |-> "push_back_vector", old |-> 0]>>

\* The two push_trail calls of assign_eh: value_trail(m_cost) and
\* push_back_vector(m_costs).
PushTrail(tr, cost) ==
    tr \o <<[kind |-> "value_trail", old |-> cost],
            [kind |-> "push_back_vector", old |-> 0]>>

\* Mutant of AssignBlocks: block() is also called when the cost meets the bound.
AssignBlocksAtBound(cost, min_cost) == cost >= min_cost

\* Mutant of AssignBlocks: block() is called on every true assignment.
AssignBlocksAlways(cost, min_cost) == TRUE

\* Condition under which assign_eh calls block().
AssignBlocks(cost, min_cost) == cost > min_cost

\* The host assigns the relaxation atom bv and notifies the plugin:
\* assign_eh(bv, is_true).
HostAssign(bv, is_true) ==
    /\ pc = "search"
    /\ bv \in BoundBoolVars \ AssignedBoolVars
    /\ ~\E c \in lemmas :
          Falsified(c, TrueBoolVars \cup (IF is_true THEN {bv} ELSE {}))
    /\ is_true => m_bool2var[bv] < Len(m_weights)
    /\ assigned' = Append(assigned, [bv |-> bv, val |-> is_true, lim |-> Len(trail)])
    /\ IF is_true
       THEN LET tv == m_bool2var[bv]
                w == At(m_weights, tv)
                cost == m_cost + w
                ids == Append(m_costs, tv)
            IN /\ trail' = PushTrail(trail, m_cost)
               /\ m_cost' = cost
               /\ m_costs' = ids
               /\ IF AssignBlocks(cost, m_min_cost)
                  THEN \E costs \in SortedCosts(ids) :
                          ApplyBlock(Block(cost, ids, costs), "assign_eh")
                  ELSE UNCHANGED <<bestVars, axiomVars>>
       ELSE UNCHANGED <<ledgerVars, bestVars, axiomVars>>
    /\ UNCHANGED <<inputVars, pc, registryVars, bindVars, fcVars, outVars>>

RECURSIVE UndoTo(_, _, _, _)
\* The host pops the trail down to length lim, undoing each entry:
\* value_trail restores m_cost, push_back_vector pops m_costs.
UndoTo(tr, lim, cost, ids) ==
    IF Len(tr) > lim
    THEN LET e == tr[Len(tr)]
         IN IF e.kind = "value_trail"
            THEN UndoTo(Front(tr), lim, e.old, ids)
            ELSE UndoTo(Front(tr), lim, cost, Front(ids))
    ELSE [cost |-> cost, ids |-> ids]

\* The host backtracks to the first k assignments.
HostBacktrack(k) ==
    /\ pc = "search"
    /\ k \in 0..(Len(assigned) - 1)
    /\ LET lim == assigned[k + 1].lim
           u == UndoTo(trail, lim, m_cost, m_costs)
       IN /\ trail' = SubSeq(trail, 1, lim)
          /\ m_cost' = u.cost
          /\ m_costs' = u.ids
    /\ assigned' = SubSeq(assigned, 1, k)
    /\ UNCHANGED <<inputVars, pc, registryVars, bindVars, bestVars, axiomVars,
                   fcVars, outVars>>

----------------------------------------------------------------------------
\* Full-assignment checkpoint and the end of the search

\* Mutant of FinalCheckStatus: the two statuses are swapped.
FinalCheckStatusSwapped(blocked) == IF blocked THEN "FC_DONE" ELSE "FC_CONTINUE"

\* final_check_eh: the status for the flag returned by block().
FinalCheckStatus(blocked) == IF blocked THEN "FC_CONTINUE" ELSE "FC_DONE"

\* The host has a complete, consistent assignment and calls final_check_eh.
HostFinalCheck ==
    /\ pc = "search"
    /\ AssignedBoolVars = BoundBoolVars
    /\ ~InConflict
    /\ Feasible(IdxOf(TrueBoolVars))
    /\ \E costs \in SortedCosts(m_costs) :
          LET b == Block(m_cost, m_costs, costs)
          IN /\ ApplyBlock(b, "final_check_eh")
             /\ fc' = FinalCheckStatus(b.ret)
             /\ continued' = IF fc' = "FC_CONTINUE"
                             THEN continued \cup {TrueBoolVars}
                             ELSE continued
             /\ pc' = IF fc' = "FC_DONE" THEN "extract" ELSE "search"
             /\ result' = IF fc' = "FC_DONE" THEN "l_true" ELSE result
    /\ UNCHANGED <<inputVars, registryVars, bindVars, ledgerVars, assigned, soft_out>>

\* The host has exhausted the assignments: check_sat_core returns l_false.
HostUnsat ==
    /\ pc = "search"
    /\ Remaining = {}
    /\ pc' = "extract"
    /\ result' = "l_false"
    /\ UNCHANGED <<inputVars, registryVars, bindVars, ledgerVars, bestVars,
                   assigned, axiomVars, fcVars, soft_out>>

----------------------------------------------------------------------------
\* Result extractor: get_assignment

\* Mutant of SortAsc: m_cost_save is left in assertion order.
SortNone(s) == s

RECURSIVE SortAsc(_)
\* std::sort(m_cost_save.begin(), m_cost_save.end()): ascending by theory variable
SortAsc(s) ==
    IF s = <<>> THEN <<>>
    ELSE LET m == CHOOSE x \in Range(s) : \A y \in Range(s) : x <= y
             k == CHOOSE j \in 1..Len(s) : s[j] = m
         IN <<m>> \o SortAsc(SubSeq(s, 1, k - 1) \o SubSeq(s, k + 1, Len(s)))

RECURSIVE GetLoop(_, _, _, _)
\* The loop of get_assignment over i, with cursor j into the sorted m_cost_save.
GetLoop(i, j, save, res) ==
    IF i < Len(m_vars)
    THEN IF j < Len(save) /\ At(save, j) = i
         THEN GetLoop(i + 1, j + 1, save, res)
         ELSE GetLoop(i + 1, j, save, Append(res, At(m_fmls, i)))
    ELSE res

\* get_assignment(result) on the saved set save: the sorted m_cost_save and
\* the formulas pushed to result.
GetAssignmentOf(save) ==
    LET sorted == SortAsc(save)
    IN [cost_save |-> sorted, fmls |-> GetLoop(0, 0, sorted, <<>>)]

\* The tail of weighted_maxsat: get_assignment(soft_constraints) and the
\* adjustment of the result.
GetAssignment ==
    /\ pc = "extract"
    /\ LET g == GetAssignmentOf(m_cost_save)
       IN /\ m_cost_save' = g.cost_save
          /\ soft_out' = g.fmls
          /\ result' = IF g.fmls # <<>> /\ result = "l_false" THEN "l_true" ELSE result
    /\ pc' = "return"
    /\ UNCHANGED <<inputVars, registryVars, bindVars, ledgerVars, m_min_cost,
                   assigned, axiomVars, fcVars>>

----------------------------------------------------------------------------
Next ==
    \/ AssertWeighted
    \/ InitSearch
    \/ \E bv \in BoundBoolVars : \E is_true \in BOOLEAN : HostAssign(bv, is_true)
    \/ \E k \in 0..MaxSoft : HostBacktrack(k)
    \/ HostFinalCheck
    \/ HostUnsat
    \/ GetAssignment

Spec == Init /\ [][Next]_vars

----------------------------------------------------------------------------
\* Several calls of weighted_maxsat on one plugin instance, and reset_eh

\* assign_eh(bv, true) on an atom whose theory variable is no index of
\* m_weights: the read m_weights[tv] is out of range and the behaviour of the
\* program is undefined from there on.
HostAssignOutOfRange(bv) ==
    /\ pc = "search"
    /\ bv \in BoundBoolVars \ AssignedBoolVars
    /\ ~\E c \in lemmas : Falsified(c, TrueBoolVars \cup {bv})
    /\ m_bool2var[bv] >= Len(m_weights)
    /\ pc' = "undefined"
    /\ UNCHANGED <<inputVars, registryVars, bindVars, ledgerVars, bestVars,
                   assigned, axiomVars, fcVars, outVars>>

\* weighted_maxsat is called again with n new soft constraints: ctx.get_theory
\* finds the plugin of the previous call. The host has popped its assignments,
\* which undoes the trail, and keeps its lemmas and the hard constraints, so
\* the new feasible sets refine the old ones.
NewCall ==
    /\ pc = "return"
    /\ calls < MaxCalls
    /\ calls' = calls + 1
    /\ \E n \in 0..MaxSessSoft :
        /\ weights' \in [1..n -> Weights]
        /\ hard' \in {F \in UpClosed(Len(m_vars) + n) :
                         Len(m_vars) > 0 =>
                             \A T \in F : (T \cap (0..(Len(m_vars) - 1))) \in hard}
    /\ soft_i' = 0
    /\ LET u == UndoTo(trail, 0, m_cost, m_costs)
       IN /\ m_cost' = u.cost
          /\ m_costs' = u.ids
    /\ trail' = <<>>
    /\ assigned' = <<>>
    /\ axiom' = [lits |-> <<>>, min_submit |-> 0, min_return |-> 0, caller |-> "none"]
    /\ num_axioms' = 0
    /\ fc' = "none"
    /\ continued' = {}
    /\ result' = "l_undef"
    /\ soft_out' = <<>>
    /\ pc' = "assert"
    /\ UNCHANGED <<reset_mark, m_vars, m_fmls, m_weights, num_fresh, bindVars,
                   bestVars, lemmas>>

\* reset_eh, called when the host context is reset between two calls:
\* theory::reset_eh drops the theory variables, and the six resets follow.
\* m_fmls, m_bool2var and m_var2bool are not touched. The host forgets its
\* assignments and lemmas.
ResetEh ==
    /\ pc = "return"
    /\ th_vars' = 0
    /\ m_vars' = <<>>
    /\ m_weights' = <<>>
    /\ m_costs' = <<>>
    /\ m_cost' = 0
    /\ m_min_cost' = 0
    /\ m_cost_save' = <<>>
    /\ reset_mark' = num_fresh
    /\ assigned' = <<>>
    /\ trail' = <<>>
    /\ lemmas' = {}
    /\ UNCHANGED <<weights, hard, calls, pc, m_fmls, num_fresh, soft_i, m_bool2var,
                   m_var2bool, axiom, num_axioms, fcVars, outVars>>

InitSessions == Init /\ Len(weights) <= MaxSessSoft

NextSessions ==
    \/ Next
    \/ \E bv \in BoundBoolVars : HostAssignOutOfRange(bv)
    \/ NewCall
    \/ ResetEh

SpecSessions == InitSessions /\ [][NextSessions]_vars

----------------------------------------------------------------------------
\* One call under a host search that makes progress

\* Some full assignment left by the hard constraints and the lemmas agrees
\* with the atoms in trueBvs being true and those in falseBvs being false.
Extendable(trueBvs, falseBvs) ==
    \E T \in Remaining : trueBvs \subseteq BvsOf(T) /\ falseBvs \cap BvsOf(T) = {}

\* The host decides or propagates an atom only towards an assignment that
\* the hard constraints and the lemmas it keeps still allow.
FairAssign(bv, is_true) ==
    /\ IF is_true
       THEN Extendable(TrueBoolVars \cup {bv}, AssignedBoolVars \ TrueBoolVars)
       ELSE Extendable(TrueBoolVars, (AssignedBoolVars \ TrueBoolVars) \cup {bv})
    /\ HostAssign(bv, is_true)

\* The host backtracks only out of a conflict with a lemma or out of a
\* partial assignment that has no extension left.
FairBacktrack(k) ==
    /\ InConflict \/ ~Extendable(TrueBoolVars, AssignedBoolVars \ TrueBoolVars)
    /\ HostBacktrack(k)

NextFair ==
    \/ AssertWeighted
    \/ InitSearch
    \/ \E bv \in BoundBoolVars : \E is_true \in BOOLEAN : FairAssign(bv, is_true)
    \/ \E k \in 0..MaxSoft : FairBacktrack(k)
    \/ HostFinalCheck
    \/ HostUnsat
    \/ GetAssignment

InitFair == Init /\ Len(weights) <= MaxFairSoft

\* The host never stops while a step is open to it.
SpecFair == InitFair /\ [][NextFair]_vars /\ WF_vars(NextFair)

----------------------------------------------------------------------------
\* Vocabulary of the properties

Ids == 0..(Len(m_vars) - 1)

TotalWeight == SumSet(m_weights, Ids)

SaveSet == Range(m_cost_save)

Registered == soft_i = Len(weights)

Ended == pc \in {"extract", "return"}

\* The least cost of a full assignment that satisfies the hard constraints.
OptCost ==
    LET costs == {SumSet(m_weights, T) : T \in hard}
    IN CHOOSE c \in costs : \A d \in costs : c <= d

\* The theory variables of the relaxation atoms the host holds true, in the
\* order of their assignment.
AssertedTrue ==
    LET t == SelectSeq(assigned, LAMBDA e : e.val)
    IN [k \in 1..Len(t) |-> m_bool2var[t[k].bv]]

\* Total weight of the soft constraints whose relaxation literal a clause negates.
LitWeight(lits) == SumSeq(m_weights, [k \in 1..Len(lits) |-> m_bool2var[lits[k].var]])

\* The soft constraints outside best_violation_set, in ascending id order.
Complement ==
    LET idSeq == [k \in 1..Len(m_vars) |-> k - 1]
        kept == SelectSeq(idSeq, LAMBDA i : i \notin SaveSet)
    IN [k \in 1..Len(kept) |-> At(m_fmls, kept[k])]

----------------------------------------------------------------------------
\* C1. Cost/ledger consistency: in every reachable state m_cost is the sum of
\* the weights of the entries of m_costs, and m_costs holds exactly the theory
\* variables whose relaxation atom the host still holds true (once each, in
\* assertion order).
C1_CostLedger ==
    /\ m_cost = SumSeq(m_weights, m_costs)
    /\ m_costs = AssertedTrue
    /\ Range(m_costs) = {m_bool2var[bv] : bv \in TrueBoolVars}
    /\ Cardinality(Range(m_costs)) = Len(m_costs)

\* A backtrack has undone an emitted cut and cost is again being accumulated.
C1_Witness ==
    /\ pc = "search"
    /\ num_axioms > 0
    /\ ~InConflict
    /\ m_cost > 0
    /\ Len(m_costs) >= 2

\* C2 (as stated). Every clause emitted by block() negates relaxation literals
\* whose weights sum to at least m_min_cost as it is when the clause is handed
\* to mk_th_axiom. Stated for the non-empty clauses, the actual cuts.
C2_SoundAtSubmit ==
    (num_axioms > 0 /\ axiom.lits # <<>>) => LitWeight(axiom.lits) >= axiom.min_submit

\* C2 (amended). Every clause emitted by block() negates relaxation literals
\* whose weights sum to at least m_min_cost as it is when block() returns,
\* that is after the tightening of that same call.
C2_SoundAtReturn ==
    num_axioms > 0 => LitWeight(axiom.lits) >= axiom.min_return

\* A non-empty clause emitted by the call that tightened the bound.
C2_Witness ==
    /\ num_axioms > 0
    /\ axiom.lits # <<>>
    /\ axiom.min_return < axiom.min_submit

\* C3. Monotonic bound: during the search no step increases m_min_cost.
C3_MonotonicBound == [][pc = "search" => m_min_cost' <= m_min_cost]_vars

\* The bound has been tightened below the sum of all weights and further
\* cuts were emitted afterwards.
C3_Witness ==
    /\ pc = "search"
    /\ 0 < m_min_cost
    /\ m_min_cost < TotalWeight
    /\ axiom.caller = "assign_eh"
    /\ axiom.min_submit = m_min_cost

\* C4. Optimal bound: when the search over satisfiable hard constraints has
\* ended (final_check_eh returned FC_DONE or the host ran out of assignments),
\* m_min_cost is the least cost of a feasible full assignment.
C4_OptimalBound == (Ended /\ hard # {}) => m_min_cost = OptCost

\* A search ended by exhaustion with an optimum strictly between zero and the
\* sum of all weights.
C4_Witness ==
    /\ Ended
    /\ hard # {}
    /\ fc = "FC_CONTINUE"
    /\ 0 < m_min_cost
    /\ m_min_cost < TotalWeight

\* C5 (as stated). The soft constraints returned by weighted_maxsat are a
\* maximal-weight satisfiable subset: the constraints left out can be violated
\* together by a model of the hard constraints that satisfies all the returned
\* ones, and their weight is the least possible. Stated for satisfiable hard
\* constraints and strictly positive weights.
C5_MaxWeightSubset ==
    (pc = "return" /\ hard # {} /\ \A i \in Ids : At(m_weights, i) > 0) =>
        LET dropped == Ids \ Range(soft_out)
        IN /\ Feasible(dropped)
           /\ SumSet(m_weights, dropped) = OptCost

\* C6 (as stated). When the hard constraints force every soft formula false,
\* the search ends with m_min_cost the sum of all weights, m_cost_save all
\* theory variables, and get_assignment returns nothing. Stated for strictly
\* positive weights.
C6_AllViolated ==
    (pc = "return" /\ Ids # {} /\ hard = {Ids} /\ \A i \in Ids : At(m_weights, i) > 0) =>
        /\ m_min_cost = TotalWeight
        /\ SaveSet = Ids
        /\ soft_out = <<>>

\* C7 (as stated). When some model of the hard constraints satisfies every
\* soft formula, the search ends with m_cost_save empty and m_min_cost = 0,
\* the last final_check_eh returned FC_DONE, and get_assignment returns all
\* registered soft constraints.
C7_AllSatisfied ==
    (pc = "return" /\ {} \in hard) =>
        /\ SaveSet = {}
        /\ m_min_cost = 0
        /\ fc = "FC_DONE"
        /\ soft_out = m_fmls

\* C7 (amended). When some model of the hard constraints satisfies every soft
\* formula, the search ends with m_min_cost = 0 and m_cost_save holding only
\* theory variables of weight 0, and get_assignment returns every soft
\* constraint of non-zero weight; when all weights are strictly positive,
\* m_cost_save is empty, the last final_check_eh returned FC_DONE and
\* get_assignment returns all registered soft constraints.
C7_AllSatisfiedAmended ==
    (pc = "return" /\ {} \in hard) =>
        /\ m_min_cost = 0
        /\ \A v \in SaveSet : At(m_weights, v) = 0
        /\ \A i \in Ids : At(m_weights, i) > 0 => At(m_fmls, i) \in Range(soft_out)
        /\ (\A i \in Ids : At(m_weights, i) > 0) =>
              /\ SaveSet = {}
              /\ fc = "FC_DONE"
              /\ soft_out = m_fmls

\* All weights positive, everything satisfiable, and the host went through
\* other assignments before it reached the one relaxing nothing.
C7_Witness ==
    /\ pc = "return"
    /\ {} \in hard
    /\ Len(m_vars) >= 2
    /\ \A i \in Ids : At(m_weights, i) > 0
    /\ num_axioms >= 3

\* C8. Whenever final_check_eh has returned FC_DONE, the weights of
\* m_cost_save sum to m_min_cost.
C8_DoneCostIsBound ==
    fc = "FC_DONE" => SumSeq(m_weights, m_cost_save) = m_min_cost

\* FC_DONE after the bound was tightened by earlier checkpoints.
C8_Witness ==
    /\ fc = "FC_DONE"
    /\ pc = "extract"
    /\ TotalWeight > 0
    /\ num_axioms >= 3

\* C9. get_assignment returns exactly the complement of m_cost_save over the
\* registered sequence, each formula once and in ascending id order, for every
\* m_cost_save the search can leave behind.
C9_ExtractComplement ==
    /\ GetAssignmentOf(m_cost_save).fmls = Complement
    /\ pc = "return" => soft_out = Complement

\* get_assignment is about to run on a saved set that is not in id order.
C9_Witness ==
    /\ pc = "extract"
    /\ Len(m_cost_save) >= 2
    /\ m_cost_save[1] > m_cost_save[2]
    /\ Len(m_cost_save) < Len(m_vars)

\* C10. Continuation protocol: a final_check_eh call makes exactly one
\* mk_th_axiom call through block(), returns FC_CONTINUE iff that clause is
\* non-empty and FC_DONE otherwise; FC_DONE is returned exactly when on entry
\* m_costs is empty or m_min_cost <= 0.
C10_Continuation ==
    [][(axiom'.caller = "final_check_eh" /\ (num_axioms' # num_axioms \/ fc' # fc)) =>
          /\ num_axioms' = num_axioms + 1
          /\ fc' = "FC_CONTINUE" <=> axiom'.lits # <<>>
          /\ fc' = "FC_DONE" <=> axiom'.lits = <<>>
          /\ fc' = "FC_DONE" <=> (m_costs = <<>> \/ m_min_cost <= 0)]_vars

\* FC_DONE returned while relaxation atoms are asserted (m_min_cost is 0).
C10_Witness ==
    /\ fc = "FC_DONE"
    /\ m_costs # <<>>
    /\ axiom.caller = "final_check_eh"
    /\ axiom.lits = <<>>

----------------------------------------------------------------------------
\* Steps of the plugin, told apart by what they change

\* A step in which the host assigned one more relaxation atom (assign_eh ran).
AssignStep == Len(assigned') = Len(assigned) + 1

\* A step in which block() ran (one more mk_th_axiom call).
BlockStep == num_axioms' # num_axioms

\* The clause of the latest mk_th_axiom call, as a set of bool_vars.
AxiomVarsOf(ax) == {ax.lits[k].var : k \in 1..Len(ax.lits)}

\* The step in which the host starts a search: init_search_eh runs.
InitSearchStep == pc = "assert" /\ pc' = "search"

\* The step in which get_assignment fills the caller's vector.
ExtractStep == pc = "extract" /\ pc' = "return"

\* C11 (as stated). init_search_eh is idempotent per soft constraint: a soft
\* constraint that is already bound when a search starts keeps its theory
\* variable and its boolean variable, the theory variable is an index of
\* m_weights, and no theory variable is created for it.
C11_BindIdempotent ==
    [][InitSearchStep =>
          /\ \A bv \in BoundBoolVars \cap DOMAIN m_bool2var :
                 /\ m_bool2var'[bv] = m_bool2var[bv]
                 /\ m_var2bool'[m_bool2var'[bv]] = bv
                 /\ m_bool2var'[bv] < Len(m_weights')
          /\ th_vars' = th_vars + Cardinality(BoundBoolVars \ DOMAIN m_bool2var)]_vars

\* C12 (as stated). When a search starts the cost ledger is reset: m_cost is
\* zero, m_costs and m_cost_save are empty and m_min_cost is the sum of the
\* weights of all registered soft constraints.
C12_LedgerResetAtStart ==
    [][InitSearchStep =>
          /\ m_cost' = 0
          /\ m_costs' = <<>>
          /\ m_cost_save' = <<>>
          /\ m_min_cost' = SumSet(m_weights', 0..(Len(m_vars') - 1))]_vars

\* C13 (as stated). After reset_eh a register/solve/extract sequence behaves
\* as on a fresh instance: at extraction the formula and the relaxation atom
\* at each index belong to the same soft constraint, and only formulas
\* registered after the reset are returned.
C13_FreshAfterReset ==
    [][ExtractStep =>
          /\ \A i \in 0..(Len(m_vars) - 1) : At(m_fmls, i) = At(m_vars, i)
          /\ \A k \in 1..Len(soft_out') : soft_out'[k] >= reset_mark]_vars

\* C14. Eager pruning: assign_eh(bv, true) adds the weight of bv to m_cost and
\* emits a clause in that same call exactly when the updated m_cost exceeds
\* m_min_cost; assign_eh(bv, false) changes no ledger state and emits nothing.
C14_EagerPruning ==
    [][AssignStep =>
          LET e == assigned'[Len(assigned')]
          IN IF e.val
             THEN /\ m_cost' = m_cost + At(m_weights, m_bool2var[e.bv])
                  /\ m_costs' = Append(m_costs, m_bool2var[e.bv])
                  /\ (m_cost' > m_min_cost) <=>
                         (num_axioms' = num_axioms + 1 /\ axiom'.caller = "assign_eh")
                  /\ (m_cost' <= m_min_cost) => UNCHANGED <<lemmas, axiom, num_axioms>>
             ELSE UNCHANGED <<m_cost, m_costs, trail, m_min_cost, m_cost_save,
                              lemmas, axiom, num_axioms>>]_vars

\* assign_eh has just cut a partial assignment of at least two relaxed atoms.
C14_Witness ==
    /\ pc = "search"
    /\ axiom.caller = "assign_eh"
    /\ InConflict
    /\ Len(m_costs) >= 2
    /\ Len(assigned) < Len(m_vars)

\* C15. Bound update rule: a block() call entered with m_cost < m_min_cost
\* leaves m_min_cost at the accumulated weight of the emitted prefix, which is
\* m_cost, and m_cost_save at m_costs; a call entered with m_cost >= m_min_cost
\* changes neither.
C15_BoundUpdate ==
    [][BlockStep =>
          IF m_cost' < m_min_cost
          THEN /\ m_min_cost' = LitWeight(axiom'.lits)
               /\ m_min_cost' = m_cost'
               /\ m_cost_save' = m_costs'
          ELSE UNCHANGED <<m_min_cost, m_cost_save>>]_vars

\* The bound was tightened on a set of two or more relaxed atoms.
C15_Witness ==
    /\ pc = "search"
    /\ axiom.min_return < axiom.min_submit
    /\ Len(m_cost_save) >= 2
    /\ m_min_cost > 0

\* C16 (as stated). block() emits an empty clause only when m_min_cost is zero
\* or negative on entry.
C16_EmptyOnlyAtZero ==
    (num_axioms > 0 /\ axiom.lits = <<>>) => axiom.min_submit <= 0

\* C16 (amended). block() emits an empty clause only when, on entry, m_costs
\* is empty or m_min_cost <= 0; a call from assign_eh never emits an empty
\* clause while m_min_cost > 0.
C16_EmptyOnlyAtZeroOrNoCosts ==
    [][(BlockStep /\ axiom'.lits = <<>>) =>
          /\ m_costs' = <<>> \/ m_min_cost <= 0
          /\ axiom'.caller = "assign_eh" => m_min_cost <= 0]_vars

\* An empty clause emitted at a checkpoint with nothing relaxed and a positive
\* bound, after the bound had been tightened before.
C16_Witness ==
    /\ axiom.lits = <<>>
    /\ axiom.caller = "final_check_eh"
    /\ axiom.min_submit > 0
    /\ axiom.min_submit < TotalWeight

\* The prefix block() would emit with ties broken by registration order
\* (lower theory variable first).
RegistrationOrderLits(ids, min_cost) ==
    LET costs == CHOOSE p \in SortedCosts(ids) :
                    \A a, b \in 1..Len(ids) :
                        (a < b /\ ~CompareCost(p[a], p[b])) => p[a] < p[b]
    IN BlockLoop(costs, 0, 0, <<>>, min_cost).lits

\* C17 (as stated). Deterministic greedy prefix: the clause block() emits is
\* the prefix of m_costs sorted by weight descending with ties in registration
\* order, so it is a function of the asserted set, the weights and m_min_cost.
C17_DeterministicPrefix ==
    [][BlockStep =>
          AxiomVarsOf(axiom') = AxiomVarsOf([lits |-> RegistrationOrderLits(m_costs', m_min_cost)])]_vars

\* C18. m_min_cost and m_cost_save change during the search only in a block()
\* call made by final_check_eh, never in one made by assign_eh; the set then
\* saved is the set of relaxation atoms true in the complete, consistent
\* assignment of that checkpoint.
C18_BoundOnlyAtCheckpoint ==
    [][/\ (pc = "search" /\ <<m_min_cost, m_cost_save>>' # <<m_min_cost, m_cost_save>>) =>
              /\ axiom'.caller = "final_check_eh"
              /\ num_axioms' = num_axioms + 1
              /\ assigned' = assigned
              /\ AssignedBoolVars = BoundBoolVars
              /\ Feasible(IdxOf(TrueBoolVars))
              /\ Range(m_cost_save') = {m_bool2var[bv] : bv \in TrueBoolVars}
       /\ AssignStep => UNCHANGED <<m_min_cost, m_cost_save>>]_vars

\* assign_eh has emitted a cut after a checkpoint had recorded a non-empty
\* best set.
C18_Witness ==
    /\ pc = "search"
    /\ axiom.caller = "assign_eh"
    /\ m_cost_save # <<>>
    /\ m_min_cost > 0

\* C19. Every non-empty clause block() emits holds only negations of
\* relaxation atoms that are true when it is emitted, none of them twice, so
\* the current assignment falsifies it; and the set of atoms true at a
\* checkpoint that returned FC_CONTINUE is never again contained in the set of
\* atoms true at a later checkpoint.
C19_ClauseBlocksCurrent ==
    [][/\ (BlockStep /\ axiom'.lits # <<>>) =>
              /\ \A k \in 1..Len(axiom'.lits) : axiom'.lits[k].sign
              /\ AxiomVarsOf(axiom') \subseteq TrueBoolVars'
              /\ Cardinality(AxiomVarsOf(axiom')) = Len(axiom'.lits)
              /\ Range(axiom'.lits) \in lemmas'
              /\ InConflict'
       /\ (BlockStep /\ axiom'.caller = "final_check_eh") =>
              \A T \in continued : ~(T \subseteq TrueBoolVars)]_vars

\* A third checkpoint has returned FC_CONTINUE.
C19_Witness ==
    /\ pc = "search"
    /\ fc = "FC_CONTINUE"
    /\ axiom.caller = "final_check_eh"
    /\ Cardinality(continued) >= 3

\* C20. Termination: under a host search that keeps and respects every lemma
\* and never stops, every checkpoint that signals FC_CONTINUE removes at least
\* one of the full assignments that were left (its own), so only finitely many
\* checkpoints signal FC_CONTINUE, and the call of weighted_maxsat returns,
\* after FC_DONE or after the host has run out of assignments.
C20_Termination ==
    /\ [][(BlockStep /\ fc' = "FC_CONTINUE" /\ axiom'.caller = "final_check_eh") =>
              /\ Remaining' \subseteq Remaining
              /\ Remaining' # Remaining
              /\ IdxOf(TrueBoolVars) \in Remaining \ Remaining']_vars
    /\ <>(pc = "return" /\ (fc = "FC_DONE" \/ Remaining = {}))

\* A call that has returned after two checkpoints signalled FC_CONTINUE and a
\* third one signalled FC_DONE.
C20_Witness ==
    /\ pc = "return"
    /\ fc = "FC_DONE"
    /\ Cardinality(continued) >= 2

====
